---- MODULE Spec2Model ----
(***************************************************************************)
(* Contract risk triage of blind-signer-protector: the /analyze handler of *)
(* src/main.py (the JSON surface) and main() of src/app.py (the            *)
(* interactive surface).  One behaviour is one analysis of one uploaded    *)
(* PDF, from the extracted text to the report.                             *)
(*                                                                         *)
(* The model starts where a PDF has been accepted and its text extracted   *)
(* (main.py 62-63, app.py 189-190); the classifier and summarizer handles  *)
(* exist by then (startup_event, load_pipelines), and a failure to build   *)
(* them shows as a backend that raises on every call.                      *)
(*                                                                         *)
(* Text is a sequence of one-character strings.  A classifier score is an  *)
(* integer number of hundredths (0.4 is 40); risk_density is the pair      *)
(* <<numerator, denominator>> of the quotient the code computes.           *)
(***************************************************************************)
EXTENDS Integers, Sequences, FiniteSets

VARIABLES
    surface,       \* the entry point that runs: "json" (main.py) or "interactive" (app.py)
    text,          \* the text extracted from the upload
    backend,       \* what the classifier does on each clause
    pc,            \* the handler's position
    segmented,     \* clauses, as the list comprehension leaves it (before the cap)
    clauses,       \* clauses, after the cap
    idx,           \* the loop's position in clauses, from 1
    risks,
    safe_points,
    summary_text,
    report,        \* what the user gets: the returned dict, or what is on the page
    classified,    \* the clauses the classifier has been called on, in call order
    summarized,    \* the length of each input the summarizer has been called on
    classifier,    \* the global of main.py 23: None, or the handle built
    summarizer,    \* the global of main.py 24: None, or the handle built
    built,         \* how many times pipeline() has returned each kind of handle
    tasks,         \* the coroutines of the process: where each is, and its handles
    running        \* the coroutine the event loop is running, if any

loading == <<classifier, summarizer, built, tasks, running>>

vars == <<surface, text, backend, pc, segmented, clauses, idx, risks,
          safe_points, summary_text, report, classified, summarized, loading>>

(***************************************************************************)
(* Program constants                                                       *)
(***************************************************************************)
MinClauseLen == 20
JsonMaxClauses == 30
UiMaxClauses == 50
JsonRiskThreshold == 40
UiRiskThreshold == 35
SafeThreshold == 50
JsonSafeCap == 10
UiSafeCap == 8
JsonSummaryPrefix == 3000
UiSummaryPrefix == 4000

labels == <<"Adversarial/Risky Trap", "Unfair Arbitration", "Hidden Liability",
            "Standard Clause", "Beneficial Clause">>

risk_labels == <<"Adversarial/Risky Trap", "Unfair Arbitration", "Hidden Liability">>

FallbackSummary == "Analysis complete, but summary generation timed out."

Surfaces == {"json", "interactive"}

(***************************************************************************)
(* Bounds of the model                                                     *)
(***************************************************************************)
MaxUnits == 2
Over == 1
MaxFrags == 5
MaxRequests == 2

(***************************************************************************)
(* Helpers                                                                 *)
(***************************************************************************)
Range(s) == {s[k] : k \in 1..Len(s)}

MinOf(S) == CHOOSE x \in S : \A y \in S : x <= y

MaxOf(S) == CHOOSE x \in S : \A y \in S : x >= y

Smaller(a, b) == IF a < b THEN a ELSE b

Run(ch, n) == [k \in 1..n |-> ch]

Repeat(u, n) == [k \in 1..(n * Len(u)) |-> u[((k - 1) % Len(u)) + 1]]

(***************************************************************************)
(* The segmenter:                                                          *)
(*   [c.strip() for c in text.replace('\n', '.').split('.')                *)
(*    if len(c.strip()) > 20]                                              *)
(***************************************************************************)
Whitespace == {" ", "\t", "\n", "\r"}

\* str.replace(old, new) for one-character old and new
Replace(s, old, new) ==
    LET r == [k \in 1..Len(s) |-> IF s[k] = old THEN new ELSE s[k]]
    IN  SubSeq(r, 1, Len(s))

\* str.split(sep) for a one-character sep: the pieces between the separators,
\* empty pieces included; a string with n separators has n + 1 pieces
RECURSIVE SplitFrom(_, _, _)
SplitFrom(s, sep, from) ==
    LET n == Len(s)
        stop == CHOOSE k \in from..(n + 1) :
                    /\ k = n + 1 \/ s[k] = sep
                    /\ \A j \in from..(k - 1) : s[j] # sep
    IN  IF stop = n + 1
        THEN <<SubSeq(s, from, n)>>
        ELSE <<SubSeq(s, from, stop - 1)>> \o SplitFrom(s, sep, stop + 1)

Split(s, sep) == SplitFrom(s, sep, 1)

\* str.strip(): drop leading and trailing whitespace
Strip(s) ==
    LET N == {k \in 1..Len(s) : s[k] \notin Whitespace}
    IN  IF N = {} THEN <<>> ELSE SubSeq(s, MinOf(N), MaxOf(N))

\* the length test with >= for >
KeepClauseAtLeast(c) == Len(Strip(c)) >= MinClauseLen

KeepClause(c) == Len(Strip(c)) > MinClauseLen

Segment(t) ==
    LET kept == SelectSeq(Split(Replace(t, "\n", "."), "."), KeepClause)
    IN  [k \in 1..Len(kept) |-> Strip(kept[k])]

\* clauses[:30] in main.py; if len(clauses) > 50: clauses[:50] in app.py
CapClausesOffByOne(s, cs) ==
    SubSeq(cs, 1, Smaller(Len(cs), (IF s = "json" THEN JsonMaxClauses ELSE UiMaxClauses) + 1))

MaxClauses(s) == IF s = "json" THEN JsonMaxClauses ELSE UiMaxClauses

CapClauses(s, cs) == SubSeq(cs, 1, Smaller(Len(cs), MaxClauses(s)))

(***************************************************************************)
(* The classifier and summarizer backends                                  *)
(***************************************************************************)
\* What one classifier call does: it raises, or it returns the ranked labels
\* and scores, of which the handlers read the top ones only.
ClassifierRaises == [raises |-> TRUE, label |-> "", score |-> 0]

Scores == {35, 40, 50, 51}

ClassifierResults ==
    {ClassifierRaises} \cup
    [raises : {FALSE}, label : Range(labels), score : Scores]

\* What one summarizer call does: it raises, or it returns a summary.
SummarizerRaises == ""

SummaryTexts == {"The agreement sets out the duties of both parties."}

SummarizerResults == {SummarizerRaises} \cup SummaryTexts

(***************************************************************************)
(* Documents analysed                                                      *)
(***************************************************************************)
ClauseA == Run("a", MinClauseLen + 1)

ClauseB == Run("b", MinClauseLen + 1)

ClauseKinds == {ClauseA, ClauseB}

\* a clause ended by a full stop; a padded clause ended by a newline; a piece
\* of exactly MinClauseLen characters, which is no clause
UnitA == ClauseA \o <<".">>

UnitB == <<" ">> \o ClauseB \o <<"\n">>

UnitS == Run("a", MinClauseLen) \o <<".">>

Units == {UnitA, UnitB, UnitS}

RECURSIVE Concat(_)
Concat(us) == IF us = <<>> THEN <<>> ELSE Head(us) \o Concat(Tail(us))

ShortDocuments ==
    UNION {{Concat(us) : us \in [1..n -> Units]} : n \in 0..MaxUnits}

\* n clauses, alternately ClauseA and ClauseB
LongDocument(n) ==
    Repeat(UnitA \o UnitB, n \div 2) \o (IF n % 2 = 1 THEN UnitA ELSE <<>>)

LongCounts ==
    {JsonMaxClauses, JsonMaxClauses + Over, UiMaxClauses, UiMaxClauses + Over}

Documents == ShortDocuments \cup {LongDocument(n) : n \in LongCounts}

\* the classifier is a function of the clause it is given
Backends ==
    {b \in [ClauseKinds -> ClassifierResults] :
        \/ b[ClauseB].raises
        \/ b[ClauseB].label \in {"Hidden Liability", "Standard Clause"}
           /\ b[ClauseB].score \in {40, 51}}

(***************************************************************************)
(* The handles: classifier = None, summarizer = None (main.py 23-24).  A   *)
(* handle is the serial number of the pipeline() call that returned it.    *)
(* Task 0 is startup_event, tasks 1..MaxRequests are analyze_contract      *)
(* requests.                                                               *)
(***************************************************************************)
None == 0

Requests == 1..MaxRequests

Tasks == {0} \cup Requests

NewTask == [pc |-> "new", classifier_pipe |-> None, summarizer_pipe |-> None]

\* the process once startup_event has run, which is when requests are served
Loaded ==
    /\ classifier = 1
    /\ summarizer = 1
    /\ built = [classifier |-> 1, summarizer |-> 1]
    /\ tasks = [t \in Tasks |-> NewTask]
    /\ running = {}

(***************************************************************************)
(* The state after an upload, before the handler has run                   *)
(***************************************************************************)
NoReport ==
    [shown |-> FALSE, risk_density |-> <<0, 1>>, risks |-> <<>>,
     safe_points |-> <<>>, more |-> 0, summary |-> ""]

Init ==
    /\ surface \in Surfaces
    /\ text \in Documents
    /\ backend \in Backends
    /\ pc = "start"
    /\ segmented = <<>>
    /\ clauses = <<>>
    /\ idx = 1
    /\ risks = <<>>
    /\ safe_points = <<>>
    /\ summary_text = ""
    /\ report = NoReport
    /\ classified = <<>>
    /\ summarized = <<>>
    /\ Loaded

(***************************************************************************)
(* main.py 62-77, app.py 189-209: extract, refuse an empty text, segment,  *)
(* cap, start the two lists                                                *)
(***************************************************************************)
\* the handler without its test for an empty text
ExtractUnchecked ==
    /\ pc = "start"
    /\ pc' = "classify"
    /\ segmented' = Segment(text)
    /\ clauses' = CapClauses(surface, segmented')
    /\ UNCHANGED loading
    /\ UNCHANGED <<surface, text, backend, idx, risks, safe_points,
                   summary_text, report, classified, summarized>>

Extract ==
    /\ pc = "start"
    /\ IF text = <<>>
       THEN /\ pc' = "no_text"
            /\ UNCHANGED <<segmented, clauses>>
       ELSE /\ pc' = "classify"
            /\ segmented' = Segment(text)
            /\ clauses' = CapClauses(surface, segmented')
    /\ UNCHANGED loading
    /\ UNCHANGED <<surface, text, backend, idx, risks, safe_points,
                   summary_text, report, classified, summarized>>

(***************************************************************************)
(* One iteration of the clause loop: main.py 79-92, app.py 211-226         *)
(***************************************************************************)
\* the two thresholds, each on the other surface
RiskThresholdSwapped(s) == IF s = "json" THEN UiRiskThreshold ELSE JsonRiskThreshold

RiskThreshold(s) == IF s = "json" THEN JsonRiskThreshold ELSE UiRiskThreshold

\* get_tip with one key of its table misspelt
get_tip_misspelt(label) ==
    CASE label = "Adversarial/Risky Trap" ->
           "Request specific definition or removal of ambiguous terms."
      [] label = "Unfair Arbitration" ->
           "Propose mutual arbitration or a neutral venue (e.g., AAA rules)."
      [] label = "Hidden Liabilty" ->
           "Explicitly request mutual liability or a cap on damages."
      [] OTHER -> "Review carefully."

get_tip(label) ==
    CASE label = "Adversarial/Risky Trap" ->
           "Request specific definition or removal of ambiguous terms."
      [] label = "Unfair Arbitration" ->
           "Propose mutual arbitration or a neutral venue (e.g., AAA rules)."
      [] label = "Hidden Liability" ->
           "Explicitly request mutual liability or a cap on damages."
      [] OTHER -> "Review carefully."

\* the tips of app.py, without the pictograph each begins with
get_negotiation_tip(label) ==
    CASE label = "Adversarial/Risky Trap" ->
           "<b>Negotiation Tip:</b> Request specific definition or removal of ambiguous terms."
      [] label = "Unfair Arbitration" ->
           "<b>Negotiation Tip:</b> Propose mutual arbitration or a neutral venue (e.g., AAA rules)."
      [] label = "Hidden Liability" ->
           "<b>Negotiation Tip:</b> Explicitly request mutual liability or a cap on damages (e.g., 1x contract value)."
      [] OTHER -> "Review carefully."

TipFor(s, label) ==
    IF s = "json" THEN get_tip(label) ELSE get_negotiation_tip(label)

Finding(s, clause, res) ==
    [clause |-> clause, label |-> res.label, score |-> res.score,
     tip |-> TipFor(s, res.label)]

\* Route with the elif read as a second if
RouteIfIf(s, clause, res, rs, sp) ==
    LET rs2 == IF res.label \in Range(risk_labels) /\ res.score > RiskThreshold(s)
               THEN Append(rs, Finding(s, clause, res)) ELSE rs
        sp2 == IF res.score > SafeThreshold THEN Append(sp, clause) ELSE sp
    IN  <<rs2, sp2>>

\* Route with insert(0, ...) for append
RoutePrepend(s, clause, res, rs, sp) ==
    IF res.label \in Range(risk_labels) /\ res.score > RiskThreshold(s)
    THEN <<(<<Finding(s, clause, res)>> \o rs), sp>>
    ELSE IF res.score > SafeThreshold
         THEN <<rs, (<<clause>> \o sp)>>
         ELSE <<rs, sp>>

\* Route with the score test for safe made first
RouteSafeFirst(s, clause, res, rs, sp) ==
    IF res.score > SafeThreshold
    THEN <<rs, Append(sp, clause)>>
    ELSE IF res.label \in Range(risk_labels) /\ res.score > RiskThreshold(s)
         THEN <<Append(rs, Finding(s, clause, res)), sp>>
         ELSE <<rs, sp>>

\* the if / elif of the loop body: the two lists after routing one clause
Route(s, clause, res, rs, sp) ==
    IF res.label \in Range(risk_labels) /\ res.score > RiskThreshold(s)
    THEN <<Append(rs, Finding(s, clause, res)), sp>>
    ELSE IF res.score > SafeThreshold
         THEN <<rs, Append(sp, clause)>>
         ELSE <<rs, sp>>

\* the loop with the classifier call in a try block that skips the clause
ClassifySkipOnRaise ==
    /\ pc = "classify"
    /\ idx <= Len(clauses)
    /\ LET clause == clauses[idx]
           res == backend[clause]
       IN  /\ classified' = Append(classified, clause)
           /\ pc' = pc
           /\ idx' = idx + 1
           /\ IF res.raises
              THEN UNCHANGED <<risks, safe_points>>
              ELSE /\ risks' = Route(surface, clause, res, risks, safe_points)[1]
                   /\ safe_points' = Route(surface, clause, res, risks, safe_points)[2]
    /\ UNCHANGED loading
    /\ UNCHANGED <<surface, text, backend, segmented, clauses, summary_text,
                   report, summarized>>

\* the whole loop on the clauses from position k on, as one function of the
\* two lists: what a surface s makes of the clauses and the classifier's
\* answers when none of them raises
RECURSIVE RouteFrom(_, _, _)
RouteFrom(s, k, lists) ==
    IF k > Len(clauses)
    THEN lists
    ELSE RouteFrom(s, k + 1,
                   Route(s, clauses[k], backend[clauses[k]], lists[1], lists[2]))

Classify ==
    /\ pc = "classify"
    /\ idx <= Len(clauses)
    /\ LET clause == clauses[idx]
           res == backend[clause]
       IN  /\ classified' = Append(classified, clause)
           /\ IF res.raises
              THEN /\ pc' = "exception"
                   /\ UNCHANGED <<idx, risks, safe_points>>
              ELSE /\ pc' = pc
                   /\ idx' = idx + 1
                   /\ risks' = Route(surface, clause, res, risks, safe_points)[1]
                   /\ safe_points' = Route(surface, clause, res, risks, safe_points)[2]
    /\ UNCHANGED loading
    /\ UNCHANGED <<surface, text, backend, segmented, clauses, summary_text,
                   report, summarized>>

(***************************************************************************)
(* After the loop, JSON surface: main.py 94-108                            *)
(***************************************************************************)
SummaryPrefix(s) == IF s = "json" THEN JsonSummaryPrefix ELSE UiSummaryPrefix

\* the length of text[:3000] (text[:4000] in app.py), the summarizer's input
SummaryInput(s, t) == Smaller(Len(t), SummaryPrefix(s))

\* the quotient without the guard on an empty clause list
RiskDensityUnguarded(rs, cs) == <<Len(rs), Len(cs)>>

\* len(risks) / len(clauses) if clauses else 0
RiskDensity(rs, cs) == IF cs # <<>> THEN <<Len(rs), Len(cs)>> ELSE <<0, 1>>

SafeCap(s) == IF s = "json" THEN JsonSafeCap ELSE UiSafeCap

\* the safe list without its slice
ShownSafeUncut(s, sp) == sp

\* safe_points[:10] in main.py, safe_points[:8] in app.py
ShownSafe(s, sp) == SubSeq(sp, 1, Smaller(Len(sp), SafeCap(s)))

\* an except block that leaves summary_text as it was initialised
SummaryOrNothing(r) == r

\* the try / except around the summarizer call
SummaryOrFallback(r) == IF r = SummarizerRaises THEN FallbackSummary ELSE r

Summarize ==
    /\ surface = "json"
    /\ pc = "classify"
    /\ idx > Len(clauses)
    /\ \E r \in SummarizerResults :
          summary_text' = SummaryOrFallback(r)
    /\ summarized' = Append(summarized, SummaryInput(surface, text))
    /\ pc' = "respond"
    /\ UNCHANGED loading
    /\ UNCHANGED <<surface, text, backend, segmented, clauses, idx, risks,
                   safe_points,
                   report, classified>>

Response(rs, sp, cs, summ) ==
    [shown |-> TRUE, risk_density |-> RiskDensity(rs, cs), risks |-> rs,
     safe_points |-> ShownSafe("json", sp), more |-> 0, summary |-> summ]

Respond ==
    /\ pc = "respond"
    /\ report' = Response(risks, safe_points, clauses, summary_text)
    /\ pc' = "done"
    /\ UNCHANGED loading
    /\ UNCHANGED <<surface, text, backend, segmented, clauses, idx, risks,
                   safe_points,
                   summary_text, classified, summarized>>

(***************************************************************************)
(* After the loop, interactive surface: app.py 229-293.  The two columns   *)
(* are rendered before the summarizer is called, and the call is not in a  *)
(* try block.                                                              *)
(***************************************************************************)
\* the caption "...and n more safe clauses." (0: no caption)
MoreSafe(sp) == IF Len(sp) > UiSafeCap THEN Len(sp) - UiSafeCap ELSE 0

Rendering(rs, sp, cs) ==
    [shown |-> TRUE, risk_density |-> RiskDensity(rs, cs), risks |-> rs,
     safe_points |-> ShownSafe("interactive", sp), more |-> MoreSafe(sp),
     summary |-> ""]

Render ==
    /\ surface = "interactive"
    /\ pc = "classify"
    /\ idx > Len(clauses)
    /\ report' = Rendering(risks, safe_points, clauses)
    /\ pc' = "verdict"
    /\ UNCHANGED loading
    /\ UNCHANGED <<surface, text, backend, segmented, clauses, idx, risks,
                   safe_points,
                   summary_text, classified, summarized>>

Verdict ==
    /\ pc = "verdict"
    /\ summarized' = Append(summarized, SummaryInput(surface, text))
    /\ \E r \in SummarizerResults :
          IF r = SummarizerRaises
          THEN /\ pc' = "exception"
               /\ UNCHANGED <<summary_text, report>>
          ELSE /\ pc' = "done"
               /\ summary_text' = r
               /\ report' = [report EXCEPT !.summary = r]
    /\ UNCHANGED loading
    /\ UNCHANGED <<surface, text, backend, segmented, clauses, idx, risks,
                   safe_points,
                   classified>>

Next == Extract \/ Classify \/ Summarize \/ Respond \/ Render \/ Verdict

Spec == Init /\ [][Next]_vars

(***************************************************************************)
(* The segmenter alone, on every text of at most MaxFrags fragments        *)
(***************************************************************************)
Fragments == {Run("a", MinClauseLen), <<"b">>, <<" ">>, <<".">>, <<"\n">>}

SegTexts == UNION {{Concat(fs) : fs \in [1..n -> Fragments]} : n \in 0..MaxFrags}

SegInit ==
    /\ surface = "json"
    /\ text \in SegTexts
    /\ backend = [c \in ClauseKinds |-> ClassifierRaises]
    /\ pc = "segment"
    /\ segmented = <<>>
    /\ clauses = <<>>
    /\ idx = 1
    /\ risks = <<>>
    /\ safe_points = <<>>
    /\ summary_text = ""
    /\ report = NoReport
    /\ classified = <<>>
    /\ summarized = <<>>
    /\ Loaded

SegApply ==
    /\ pc = "segment"
    /\ segmented' = Segment(text)
    /\ pc' = "segmented"
    /\ UNCHANGED loading
    /\ UNCHANGED <<surface, text, backend, clauses, idx, risks, safe_points,
                   summary_text, report, classified, summarized>>

SegSpec == SegInit /\ [][SegApply]_vars

(***************************************************************************)
(* The handles under concurrent requests: main.py 23-38 and 58-71.         *)
(* startup_event and analyze_contract are coroutines of one event loop: a  *)
(* coroutine runs until it awaits or ends, and the only await is           *)
(* file.read() (main.py 62).  get_models awaits nothing.  pipeline() may   *)
(* raise, which leaves the global as it was and ends the coroutine.  The   *)
(* coroutines start in any order, a request before startup_event too.      *)
(***************************************************************************)
analysis == <<surface, text, backend, pc, segmented, clauses, idx, risks,
              safe_points, summary_text, report, classified, summarized>>

LoadInit ==
    /\ surface = "json"
    /\ text = <<>>
    /\ backend = [c \in ClauseKinds |-> ClassifierRaises]
    /\ pc = "start"
    /\ segmented = <<>>
    /\ clauses = <<>>
    /\ idx = 1
    /\ risks = <<>>
    /\ safe_points = <<>>
    /\ summary_text = ""
    /\ report = NoReport
    /\ classified = <<>>
    /\ summarized = <<>>
    /\ classifier = None
    /\ summarizer = None
    /\ built = [classifier |-> 0, summarizer |-> 0]
    /\ tasks = [t \in Tasks |-> NewTask]
    /\ running = {}

At(t, where) == [tasks EXCEPT ![t].pc = where]

\* the loop starts a coroutine: startup_event enters get_models (main.py 38);
\* analyze_contract runs to its await (main.py 59-62)
Begin(t) ==
    /\ running = {}
    /\ tasks[t].pc = "new"
    /\ IF t = 0
       THEN /\ tasks' = At(t, "load_classifier")
            /\ running' = {t}
       ELSE /\ tasks' = At(t, "reading")
            /\ running' = {}
    /\ UNCHANGED <<classifier, summarizer, built, analysis>>

\* file.read() is done: the text is extracted and, unless it is empty,
\* get_models is entered (main.py 62-71)
Resume(t) ==
    /\ running = {}
    /\ tasks[t].pc = "reading"
    /\ \E empty \in BOOLEAN :
          IF empty
          THEN /\ tasks' = At(t, "no_text")
               /\ running' = {}
          ELSE /\ tasks' = At(t, "load_classifier")
               /\ running' = {t}
    /\ UNCHANGED <<classifier, summarizer, built, analysis>>

\* get_models with the test of main.py 28 left out
LoadClassifierAlways(t) ==
    /\ running = {t}
    /\ tasks[t].pc = "load_classifier"
    /\ \E ok \in BOOLEAN :
          IF ok
          THEN /\ built' = [built EXCEPT !.classifier = @ + 1]
               /\ classifier' = built'.classifier
               /\ tasks' = At(t, "load_summarizer")
               /\ running' = running
          ELSE /\ tasks' = At(t, "failed")
               /\ running' = {}
               /\ UNCHANGED <<classifier, built>>
    /\ UNCHANGED <<summarizer, analysis>>

\* main.py 28-30: if classifier is None: classifier = pipeline(...)
LoadClassifier(t) ==
    /\ running = {t}
    /\ tasks[t].pc = "load_classifier"
    /\ IF classifier = None
       THEN \E ok \in BOOLEAN :
               IF ok
               THEN /\ built' = [built EXCEPT !.classifier = @ + 1]
                    /\ classifier' = built'.classifier
                    /\ tasks' = At(t, "load_summarizer")
                    /\ running' = running
               ELSE /\ tasks' = At(t, "failed")
                    /\ running' = {}
                    /\ UNCHANGED <<classifier, built>>
       ELSE /\ tasks' = At(t, "load_summarizer")
            /\ UNCHANGED <<classifier, built, running>>
    /\ UNCHANGED <<summarizer, analysis>>

\* main.py 31-33: if summarizer is None: summarizer = pipeline(...)
LoadSummarizer(t) ==
    /\ running = {t}
    /\ tasks[t].pc = "load_summarizer"
    /\ IF summarizer = None
       THEN \E ok \in BOOLEAN :
               IF ok
               THEN /\ built' = [built EXCEPT !.summarizer = @ + 1]
                    /\ summarizer' = built'.summarizer
                    /\ tasks' = At(t, "return")
                    /\ running' = running
               ELSE /\ tasks' = At(t, "failed")
                    /\ running' = {}
                    /\ UNCHANGED <<summarizer, built>>
       ELSE /\ tasks' = At(t, "return")
            /\ UNCHANGED <<summarizer, built, running>>
    /\ UNCHANGED <<classifier, analysis>>

\* main.py 34: return classifier, summarizer; startup_event ends there
\* (main.py 38), analyze_contract keeps the pair (main.py 71)
ReturnModels(t) ==
    /\ running = {t}
    /\ tasks[t].pc = "return"
    /\ tasks' = [tasks EXCEPT ![t] =
                    [pc |-> IF t = 0 THEN "done" ELSE "analysing",
                     classifier_pipe |-> classifier,
                     summarizer_pipe |-> summarizer]]
    /\ running' = IF t = 0 THEN {} ELSE running
    /\ UNCHANGED <<classifier, summarizer, built, analysis>>

\* main.py 73-108: the loop, the summary and the return, on the handles of
\* main.py 71, with no await
Analyse(t) ==
    /\ running = {t}
    /\ tasks[t].pc = "analysing"
    /\ tasks' = At(t, "done")
    /\ running' = {}
    /\ UNCHANGED <<classifier, summarizer, built, analysis>>

LoadNext ==
    \E t \in Tasks :
        \/ Begin(t)
        \/ t \in Requests /\ Resume(t)
        \/ LoadClassifier(t)
        \/ LoadSummarizer(t)
        \/ ReturnModels(t)
        \/ t \in Requests /\ Analyse(t)

LoadSpec == LoadInit /\ [][LoadNext]_vars

(***************************************************************************)
(* Properties                                                              *)
(***************************************************************************)
RiskLabelSet == {"Adversarial/Risky Trap", "Unfair Arbitration", "Hidden Liability"}

\* the classifier's answer on clause c puts it over the surface's risk line
RiskCase(c) ==
    /\ ~backend[c].raises
    /\ backend[c].label \in RiskLabelSet
    /\ backend[c].score > (IF surface = "json" THEN JsonRiskThreshold ELSE UiRiskThreshold)

SafeCase(c) ==
    /\ ~backend[c].raises
    /\ ~RiskCase(c)
    /\ backend[c].score > SafeThreshold

ClausesOf(rs) == [k \in 1..Len(rs) |-> rs[k].clause]

\* C1: a classified clause whose top label is a risk label with a score over
\* the surface's risk threshold adds exactly one RiskFinding, for that clause,
\* to the risk list and nothing to the safe list; and no step of either
\* surface adds to both lists.
C1_RiskRoutedOnce ==
    [][ /\ (pc = "classify" /\ idx <= Len(clauses) /\ RiskCase(clauses[idx]))
            => /\ Len(risks') = Len(risks) + 1
               /\ SubSeq(risks', 1, Len(risks)) = risks
               /\ risks'[Len(risks')].clause = clauses[idx]
               /\ risks'[Len(risks')].label = backend[clauses[idx]].label
               /\ risks'[Len(risks')].score = backend[clauses[idx]].score
               /\ safe_points' = safe_points
        /\ ~(risks' # risks /\ safe_points' # safe_points)
        /\ Len(risks') + Len(safe_points') <= Len(risks) + Len(safe_points) + 1
      ]_vars

\* a risk clause whose score is also over the safe threshold has been routed
C1_Witness ==
    /\ pc = "classify"
    /\ idx > 1
    /\ RiskCase(clauses[idx - 1])
    /\ backend[clauses[idx - 1]].score > SafeThreshold
    /\ Len(risks) = idx - 1

\* C2: in a report, risk_density is |risks| / |classified clauses|, the
\* denominator counting the clauses routed to safe and the dropped ones too;
\* it is 0 when nothing was classified, and lies in [0, 1].
C2_RiskDensity ==
    report.shown =>
        LET d == report.risk_density
        IN  /\ classified = <<>> => d = <<0, 1>>
            /\ classified # <<>> => d = <<Len(report.risks), Len(classified)>>
            /\ d[2] > 0
            /\ 0 <= d[1]
            /\ d[1] <= d[2]
            /\ Len(risks) + Len(safe_points) <= Len(classified)

\* a report over risk clauses and dropped clauses
C2_Witness ==
    /\ report.shown
    /\ report.risks # <<>>
    /\ Len(classified) > Len(risks) + Len(safe_points)

\* C3: of N segmented clauses, the first min(N, cap) are classified, in
\* order, and no other; a report's density is over those min(N, cap).
C3_ClauseCap ==
    LET cap == IF surface = "json" THEN JsonMaxClauses ELSE UiMaxClauses
        n == IF Len(segmented) < cap THEN Len(segmented) ELSE cap
    IN  /\ Len(classified) <= n
        /\ classified = SubSeq(segmented, 1, Len(classified))
        /\ Len(risks) + Len(safe_points) <= n
        /\ report.shown =>
              /\ Len(classified) = n
              /\ n > 0 => report.risk_density[2] = n

\* a report on a document of more clauses than the cap
C3_Witness ==
    /\ report.shown
    /\ surface = "interactive"
    /\ Len(segmented) > UiMaxClauses
    /\ Len(classified) = UiMaxClauses

\* C4: the risk list and the safe list hold their clauses in document order:
\* each is the classified sequence with the other clauses left out.
C4_DocumentOrder ==
    /\ ClausesOf(risks) = SelectSeq(classified, RiskCase)
    /\ safe_points = SelectSeq(classified, SafeCase)
    /\ report.shown =>
          /\ report.risks = risks
          /\ report.safe_points = SubSeq(safe_points, 1, Len(report.safe_points))

\* a report with two different risk clauses
C4_Witness ==
    /\ report.shown
    /\ Len(report.risks) >= 2
    /\ report.risks[1].clause # report.risks[2].clause

\* C5: the segmenter returns, in the order of the text, the trimmed pieces of
\* more than 20 characters, a piece being a longest stretch of the text free
\* of '.' and newline; no clause holds a '.' or a newline, a piece that trims
\* to exactly 20 characters is left out, and the empty text gives no clause.
C5_Segmenter ==
    pc = "segmented" =>
        LET n == Len(text)
            Term(k) == text[k] \in {".", "\n"}
            Blank(k) == text[k] \in {" ", "\t", "\n", "\r"}
            Starts == {i \in 1..(n + 1) : i = 1 \/ Term(i - 1)}
            \* the piece that starts at i is text[i..EndOf(i)]
            EndOf(i) == CHOOSE j \in (i - 1)..n :
                            /\ j = n \/ Term(j + 1)
                            /\ \A k \in i..j : ~Term(k)
            Inked(i) == {k \in i..EndOf(i) : ~Blank(k)}
            First(i) == CHOOSE a \in Inked(i) : \A k \in Inked(i) : a <= k
            Last(i) == CHOOSE b \in Inked(i) : \A k \in Inked(i) : b >= k
            Long(i) == Inked(i) # {} /\ Last(i) - First(i) + 1 > 20
            Exactly20(i) == Inked(i) # {} /\ Last(i) - First(i) + 1 = 20
            Kept == {i \in Starts : Long(i)}
            Rank(i) == 1 + Cardinality({g \in Kept : g < i})
        IN  /\ Len(segmented) = Cardinality(Kept)
            /\ \A i \in Kept : segmented[Rank(i)] = SubSeq(text, First(i), Last(i))
            /\ \A k \in 1..Len(segmented) :
                  /\ Len(segmented[k]) > 20
                  /\ \A j \in 1..Len(segmented[k]) : segmented[k][j] \notin {".", "\n"}
            /\ Cardinality({i \in Starts : Exactly20(i)}) + Len(segmented)
                  <= Cardinality(Starts)
            /\ text = <<>> => segmented = <<>>

\* two different clauses out of one text
C5_Witness ==
    /\ pc = "segmented"
    /\ Len(segmented) = 2
    /\ segmented[1] # segmented[2]

\* C6: the reported safe list is the first min(n, cap) safe findings in
\* document order, cap 10 on the JSON surface and 8 on the interactive one,
\* where the caption counts n - 8 more exactly when n > 8; the risk list is
\* reported whole.
C6_SafeTruncated ==
    report.shown =>
        LET n == Len(safe_points)
            cap == IF surface = "json" THEN JsonSafeCap ELSE UiSafeCap
            m == IF n < cap THEN n ELSE cap
        IN  /\ Len(report.safe_points) = m
            /\ \A k \in 1..m : report.safe_points[k] = safe_points[k]
            /\ safe_points = SelectSeq(clauses, SafeCase)
            /\ surface = "interactive" =>
                  /\ n > 8 => report.more = n - 8
                  /\ n <= 8 => report.more = 0
            /\ Len(report.risks) = Len(SelectSeq(clauses, RiskCase))
            /\ report.risks = risks

\* more safe clauses than the cap, and more risks than either cap
C6_Witness ==
    /\ report.shown
    /\ surface = "interactive"
    /\ Len(safe_points) > UiSafeCap
    /\ report.more > 0
    /\ Len(report.risks) > JsonSafeCap

\* the summarizer was called and raised
SummarizerRaised == summarized # <<>> /\ summary_text \notin SummaryTexts

HandlerEnded == pc \in {"done", "exception", "no_text"}

\* the density and the two lists of a report, as the classification alone
\* decides them
ReportBodyAsClassified ==
    /\ report.shown
    /\ report.risk_density =
          (IF classified = <<>> THEN <<0, 1>>
           ELSE <<Len(SelectSeq(classified, RiskCase)), Len(classified)>>)
    /\ ClausesOf(report.risks) = SelectSeq(classified, RiskCase)
    /\ \A k \in 1..Len(report.risks) :
          /\ report.risks[k].label = backend[report.risks[k].clause].label
          /\ report.risks[k].score = backend[report.risks[k].clause].score
    /\ LET sp == SelectSeq(classified, SafeCase)
           cap == IF surface = "json" THEN JsonSafeCap ELSE UiSafeCap
       IN  report.safe_points = SubSeq(sp, 1, IF Len(sp) < cap THEN Len(sp) ELSE cap)

\* C7 as claimed: on either surface, when the summarizer raises, the handler
\* ends with a report whose summary is the fallback string and whose density
\* and lists are what the classification alone decides.
C7_FallbackEverywhere ==
    (SummarizerRaised /\ HandlerEnded) =>
        /\ ReportBodyAsClassified
        /\ report.summary = FallbackSummary

\* C7, amended: on the JSON surface, when the summarizer raises, the report
\* returned has the fallback string as its summary, and its density and lists
\* are what the classification alone decides.  On the interactive surface the
\* exception ends main: the density and lists rendered before the call stay,
\* and no summary, fallback or other, is rendered.
C7_FallbackOnJsonOnly ==
    (SummarizerRaised /\ HandlerEnded) =>
        /\ ReportBodyAsClassified
        /\ surface = "json" => pc = "done" /\ report.summary = FallbackSummary
        /\ surface = "interactive" => pc = "exception" /\ report.summary = ""

\* the JSON surface returns risks under the fallback summary
C7_Witness ==
    /\ surface = "json"
    /\ pc = "done"
    /\ SummarizerRaised
    /\ report.summary = FallbackSummary
    /\ report.risks # <<>>
    /\ report.safe_points # <<>>

\* C8: once the classifier has raised on a clause, that clause is the last
\* one it was called on, the summarizer is never called, and nothing is
\* reported.
C8_ClassifierFailureAborts ==
    \A k \in 1..Len(classified) :
        backend[classified[k]].raises =>
            /\ k = Len(classified)
            /\ pc = "exception"
            /\ summarized = <<>>
            /\ ~report.shown
            /\ report = NoReport

\* the classifier raised on the second clause, after a finding on the first
C8_Witness ==
    /\ pc = "exception"
    /\ Len(classified) = 2
    /\ Len(clauses) > 2
    /\ backend[classified[2]].raises
    /\ Len(risks) + Len(safe_points) = 1

\* C9 as claimed: a text with no clause ends in a report of density 0 with
\* empty lists, whose summary is absent or the fallback string.
C9_NoSummaryWithoutClauses ==
    (text # <<>> /\ segmented = <<>> /\ pc = "done") =>
        /\ report.shown
        /\ report.risk_density = <<0, 1>>
        /\ report.risks = <<>>
        /\ report.safe_points = <<>>
        /\ report.summary \in {"", FallbackSummary}

\* C9, amended: for a non-empty text with no clause the classifier is never
\* called and the summarizer is called once, on the text; the report has
\* density 0 and empty lists, and its summary is what the summarizer
\* returned, or, when it raised, the fallback string on the JSON surface and
\* nothing on the interactive surface, where the exception ends main.
C9_ZeroClauses ==
    (text # <<>> /\ segmented = <<>> /\ pc \notin {"start", "classify"}) =>
        /\ classified = <<>>
        /\ report.shown => /\ report.risk_density = <<0, 1>>
                           /\ report.risks = <<>>
                           /\ report.safe_points = <<>>
                           /\ report.more = 0
        /\ pc \in {"done", "exception"} =>
              /\ report.shown
              /\ Len(summarized) = 1
              /\ IF SummarizerRaised
                 THEN IF surface = "json"
                      THEN pc = "done" /\ report.summary = FallbackSummary
                      ELSE pc = "exception" /\ report.summary = ""
                 ELSE pc = "done" /\ report.summary \in SummaryTexts

\* a report on a text without clauses, with a generated summary
C9_Witness ==
    /\ text # <<>>
    /\ segmented = <<>>
    /\ pc = "done"
    /\ report.shown
    /\ report.summary \in SummaryTexts

\* C10: an empty text ends the handler in its failure (HTTP 400, st.error):
\* nothing is reported and neither backend is called.
C10_EmptyTextFails ==
    (text = <<>> /\ pc # "start") =>
        /\ pc = "no_text"
        /\ report = NoReport
        /\ classified = <<>>
        /\ summarized = <<>>

C10_Witness == text = <<>> /\ pc = "no_text"

\* C11: whatever the order in which startup_event and the requests run,
\* pipeline() returns at most one classifier and at most one summarizer; a
\* handle, once set, is never replaced; and every request that analyses
\* does so on the handles the globals hold.
C11_BuiltOnce ==
    /\ [](/\ built.classifier <= 1
          /\ built.summarizer <= 1
          /\ \A t \in Requests :
                tasks[t].pc \in {"analysing", "done"} =>
                    /\ tasks[t].classifier_pipe # None
                    /\ tasks[t].summarizer_pipe # None
                    /\ tasks[t].classifier_pipe = classifier
                    /\ tasks[t].summarizer_pipe = summarizer)
    /\ [][/\ classifier # None => classifier' = classifier
          /\ summarizer # None => summarizer' = summarizer]_vars

\* startup_event has run and every request has analysed
C11_Witness ==
    /\ tasks[0].pc = "done"
    /\ \A t \in Requests : tasks[t].pc = "done"
    /\ built = [classifier |-> 1, summarizer |-> 1]

\* C12: every safe finding, kept or reported, is a clause whose top label is
\* no risk label and whose score is over the safe threshold; a clause whose
\* top label is a risk label is in no safe list, whatever its score.
C12_SafeIsNotRisk ==
    /\ \A k \in 1..Len(safe_points) :
          /\ ~backend[safe_points[k]].raises
          /\ backend[safe_points[k]].label \notin RiskLabelSet
          /\ backend[safe_points[k]].score > SafeThreshold
    /\ \A k \in 1..Len(report.safe_points) :
          /\ backend[report.safe_points[k]].label \notin RiskLabelSet
          /\ backend[report.safe_points[k]].score > SafeThreshold
    /\ \A k \in 1..Len(classified) :
          backend[classified[k]].label \in RiskLabelSet =>
              /\ classified[k] \notin Range(safe_points)
              /\ classified[k] \notin Range(report.safe_points)

\* a report with a safe clause, and a risk-labelled clause under the risk
\* threshold that went to neither list
C12_Witness ==
    /\ report.shown
    /\ report.safe_points # <<>>
    /\ report.risks = <<>>
    /\ \E k \in 1..Len(classified) :
          backend[classified[k]].label \in RiskLabelSet

\* C13: every risk finding has a risk label and the tip its surface's advisor
\* gives for that label; both advisors have a tip of their own for each risk
\* label, so no finding carries the default text.
C13_TipsForRiskLabels ==
    /\ \A l \in RiskLabelSet :
          /\ get_tip(l) # "Review carefully."
          /\ get_negotiation_tip(l) # "Review carefully."
    /\ \A k \in 1..Len(risks) :
          /\ risks[k].label \in RiskLabelSet
          /\ risks[k].tip = (IF surface = "json" THEN get_tip(risks[k].label)
                             ELSE get_negotiation_tip(risks[k].label))
          /\ risks[k].tip # "Review carefully."
    /\ report.shown => report.risks = risks

\* the JSON surface reports a Hidden Liability finding with its tip
C13_Witness ==
    /\ report.shown
    /\ surface = "json"
    /\ report.risks # <<>>
    /\ report.risks[1].label = "Hidden Liability"
    /\ report.risks[1].tip = "Explicitly request mutual liability or a cap on damages."

\* a risk finding without its tip
Untipped(rs) ==
    [k \in 1..Len(rs) |->
        [clause |-> rs[k].clause, label |-> rs[k].label, score |-> rs[k].score]]

OverJsonThreshold(f) == f.score > JsonRiskThreshold

\* C14: on the same clauses, at most 30 of them, and the same classifier
\* answers, the risk findings of the JSON surface are risk findings of the
\* interactive surface, in the same order and with the same label and score
\* (they are the interactive ones that score over 0.40), and the two whole
\* safe lists are equal.  The run in hand is one of the two runs compared.
C14_SurfacesAgree ==
    (/\ pc \notin {"start", "no_text"}
     /\ idx > Len(clauses)
     /\ Len(segmented) <= JsonMaxClauses) =>
        LET J == RouteFrom("json", 1, <<<<>>, <<>>>>)
            U == RouteFrom("interactive", 1, <<<<>>, <<>>>>)
        IN  /\ <<risks, safe_points>> = (IF surface = "json" THEN J ELSE U)
            /\ J[2] = U[2]
            /\ Untipped(J[1]) = SelectSeq(Untipped(U[1]), OverJsonThreshold)
            /\ Len(J[1]) <= Len(U[1])

\* the interactive surface finds a risk the JSON surface does not, next to a
\* risk that both find
C14_Witness ==
    /\ pc = "done"
    /\ Len(segmented) <= JsonMaxClauses
    /\ Len(RouteFrom("json", 1, <<<<>>, <<>>>>)[1]) >= 1
    /\ Len(RouteFrom("interactive", 1, <<<<>>, <<>>>>)[1])
          > Len(RouteFrom("json", 1, <<<<>>, <<>>>>)[1])

====
